---------------------------- MODULE Spec2Model ----------------------------
(***************************************************************************)
(* Snap-It (src/snap_it.py): a one-window form whose button handler,       *)
(* SnapperGUI.take_snapshot, runs `snapper create`, `snapper get-config`   *)
(* and `snapper list` in turn and parses their text output.                *)
(*                                                                         *)
(* Text is modelled as a sequence of one-character strings, so that        *)
(* strip, split, startswith, the substring test and the size regular       *)
(* expression are computed character by character as Python computes them. *)
(* The fixed pieces of the dialog messages are single elements.            *)
(***************************************************************************)
EXTENDS Naturals, Sequences, FiniteSets

VARIABLES
    comment_input,   \* text of the QLineEdit
    snap_button,     \* whether the QPushButton is enabled
    status_bar,      \* message shown in the status bar
    pc,              \* where the UI thread is
    dialog,          \* the modal QMessageBox that is open, if any
    comment,         \* local of take_snapshot
    snapshot_num,    \* local of take_snapshot
    subvolume,       \* local of take_snapshot: <<>> is None, <<v>> is the string v
    snapshot_path,   \* local of take_snapshot
    size,            \* local of take_snapshot
    calls,           \* the external commands issued by the current click, in order
    results,         \* what each finished command returned, in order
    clicked_text,    \* the field's text when the current click arrived
    outcome          \* how the last click's take_snapshot returned

vars == <<comment_input, snap_button, status_bar, pc, dialog, comment,
          snapshot_num, subvolume, snapshot_path, size, calls, results,
          clicked_text, outcome>>

----------------------------------------------------------------------------
(* Characters *)

Whitespace == {" ", "\t", "\n"}
Digits == {"0", "1", "2", "3", "4", "5", "6", "7", "8", "9"}
\* U+2502, the column delimiter of snapper's tables ("not a regular pipe")
BOX == "U+2502"
PIPE == "|"
NL == "\n"

----------------------------------------------------------------------------
(* Python string operations *)

RECURSIVE lstrip(_)
lstrip(s) ==
    IF s # <<>> /\ Head(s) \in Whitespace THEN lstrip(Tail(s)) ELSE s

RECURSIVE rstrip(_)
rstrip(s) ==
    IF s # <<>> /\ s[Len(s)] \in Whitespace
    THEN rstrip(SubSeq(s, 1, Len(s) - 1))
    ELSE s

\* a plausible slip: the text is used as typed
strip_missing(s) == s

\* str.strip()
strip(s) == rstrip(lstrip(s))

\* str.split(sep) for a one-character separator
RECURSIVE split(_, _)
split(s, sep) ==
    LET idx == {i \in 1..Len(s) : s[i] = sep}
    IN  IF idx = {}
        THEN <<s>>
        ELSE LET i == CHOOSE k \in idx : \A j \in idx : k <= j
             IN  <<SubSeq(s, 1, i - 1)>> \o split(SubSeq(s, i + 1, Len(s)), sep)

\* pat in s
contains(s, pat) ==
    \E i \in 1..(Len(s) - Len(pat) + 1) : SubSeq(s, i, i + Len(pat) - 1) = pat

\* s.startswith(p)
startswith(s, p) == Len(p) <= Len(s) /\ SubSeq(s, 1, Len(p)) = p

\* first position at or after i whose character is not in cls
RECURSIVE RunEnd(_, _, _)
RunEnd(s, i, cls) ==
    IF i <= Len(s) /\ s[i] \in cls THEN RunEnd(s, i + 1, cls) ELSE i

\* re.match of (\d+\.?\d*\s*[KMGTP]?i?B) at position i: the position of the
\* closing B, or 0.  The character classes of consecutive pieces are disjoint,
\* so the greedy parse is the only one.
SizeMatchAt(line, i) ==
    LET n == Len(line)
        a == RunEnd(line, i, Digits)
        b == IF a <= n /\ line[a] = "." THEN a + 1 ELSE a
        c == RunEnd(line, b, Digits)
        d == RunEnd(line, c, Whitespace)
        e == IF d <= n /\ line[d] \in {"K", "M", "G", "T", "P"} THEN d + 1 ELSE d
        f == IF e <= n /\ line[e] = "i" THEN e + 1 ELSE e
    IN  IF a > i /\ f <= n /\ line[f] = "B" THEN f ELSE 0

\* re.search(r'(\d+\.?\d*\s*[KMGTP]?i?B)', line): <<>> is None, <<m>> is group(1)
re_search_size(line) ==
    LET starts == {i \in 1..Len(line) : SizeMatchAt(line, i) # 0}
    IN  IF starts = {}
        THEN <<>>
        ELSE LET i == CHOOSE k \in starts : \A j \in starts : k <= j
             IN  <<SubSeq(line, i, SizeMatchAt(line, i))>>


----------------------------------------------------------------------------
(* Bounds *)

\* most rows in a table the tool prints
MaxRows == 2

----------------------------------------------------------------------------
(* What the user types and what the external tool prints.  The tool is not  *)
(* part of the repository: these are the inputs the handler is run against. *)

S_SUBVOLUME == <<"S", "U", "B", "V", "O", "L", "U", "M", "E">>
S_FSTYPE == <<"F", "S", "T", "Y", "P", "E">>
S_Key == <<"K", "e", "y">>
S_single == <<"s", "i", "n", "g", "l", "e">>

Descriptions ==
    { <<>>, <<" ">>, <<"a">>, <<" ", "a", "b", " ">> }

\* standard output of `snapper create --print-number`
CreateOutputs ==
    { <<>>, <<NL>>, <<"1", NL>>, <<"1", "2", NL>> }

\* error-stream texts
Stderrs ==
    { <<>>, <<"n", "o">>, <<"I", "O", " ", "e", "r", "r", NL>> }

\* rows of `snapper get-config`: key, delimiter, padding, value, padding.
\* The text SUBVOLUME occurs in these rows only as a key.
ConfigRow(k, d, l, v, r) == [key |-> k, delim |-> d, lpad |-> l, value |-> v, rpad |-> r]

ConfigRows ==
    { ConfigRow(S_Key, BOX, <<" ">>, <<"V", "a", "l">>, <<>>),
      ConfigRow(S_FSTYPE, BOX, <<" ">>, <<"b", "t", "r", "f", "s">>, <<>>),
      ConfigRow(S_SUBVOLUME, BOX, <<" ">>, <<"/">>, <<>>),
      ConfigRow(S_SUBVOLUME, BOX, <<" ", " ">>, <<"/", "h", "o", "m", "e">>, <<" ">>),
      ConfigRow(S_SUBVOLUME, BOX, <<" ">>, <<>>, <<>>),
      ConfigRow(S_SUBVOLUME, PIPE, <<" ">>, <<"/">>, <<>>) }

\* rows of `snapper list -t single`: number, then the size column (may be blank)
ListRow(k, s) == [key |-> k, used |-> s]

ListRows ==
    { ListRow(<<"1">>, <<"2", ".", "5", " ", "M", "i", "B">>),
      ListRow(<<"1", "2">>, <<"1", "6", " ", "K", "i", "B">>),
      ListRow(<<"1">>, <<>>),
      ListRow(<<"2">>, <<"3", "B">>) }

\* tables: up to MaxRows rows, no row twice
Tables(rows) ==
    UNION { { t \in [1..n -> rows] : \A i, j \in 1..n : i # j => t[i] # t[j] }
            : n \in 0..MaxRows }

RenderConfigRow(r) ==
    r.key \o <<" ", r.delim>> \o r.lpad \o r.value \o r.rpad

RenderListRow(r) ==
    r.key \o <<" ", BOX, " ">> \o S_single \o <<" ", BOX, " ">> \o r.used \o <<" ", BOX>>

RECURSIVE JoinLines(_)
JoinLines(ls) ==
    IF ls = <<>> THEN <<>> ELSE Head(ls) \o <<NL>> \o JoinLines(Tail(ls))

RenderConfig(t) == JoinLines([i \in 1..Len(t) |-> RenderConfigRow(t[i])])
RenderList(t) == JoinLines([i \in 1..Len(t) |-> RenderListRow(t[i])])

\* a finished command: how it ended, the table or text it printed, its
\* standard output as text, its error stream
Result(k, t, o, e) == [kind |-> k, table |-> t, stdout |-> o, stderr |-> e]

\* a command that fails prints no table; one that cannot be started prints nothing
CreateResults ==
    { Result("ok", <<>>, o, e) : o \in CreateOutputs, e \in {<<>>, <<"n", "o">>} }
    \cup { Result("nonzero", <<>>, o, e) : o \in {<<>>, <<"1", NL>>}, e \in Stderrs }
    \cup { Result("oserror", <<>>, <<>>, <<>>) }

ConfigResults ==
    { Result("ok", t, RenderConfig(t), <<>>) : t \in Tables(ConfigRows) }
    \cup { Result("nonzero", <<>>, <<>>, e) : e \in Stderrs }
    \cup { Result("oserror", <<>>, <<>>, <<>>) }

ListResults ==
    { Result("ok", t, RenderList(t), <<>>) : t \in Tables(ListRows) }
    \cup { Result("nonzero", <<>>, <<>>, e) : e \in Stderrs }
    \cup { Result("oserror", <<>>, <<>>, <<>>) }

----------------------------------------------------------------------------
(* Pieces of take_snapshot *)

NoDialog == [kind |-> "none", title |-> "", text |-> <<>>]
Dialog(k, t, x) == [kind |-> k, title |-> t, text |-> x]

WarningText == <<"Please enter a description for the snapshot.">>
NoNumberText == <<"Failed to get snapshot number">>
NoSubvolumeText == <<"Failed to get subvolume path">>
\* str(e) of the OSError subprocess.run raises when sudo cannot be started
OSErrorText == <<"[Errno 2] No such file or directory: 'sudo'">>
Unknown == <<"Unknown">>

\* the three command lines
CreateCall(c) == [cmd |-> "create", description |-> c]
ConfigCall == [cmd |-> "get-config", description |-> <<>>]
ListCall == [cmd |-> "list", description |-> <<>>]

\* a plausible slip: the button is never disabled
ButtonNotDisabled == TRUE

\* setEnabled(False) on entry
EnabledWhileBusy == FALSE

\* a plausible slip: no finally clause, the button stays as it is
ButtonLeftAsIs == snap_button

\* setEnabled(True) in the finally clause
EnabledAfterFinally == TRUE

\* a plausible slip: the number is not checked
NumberUnchecked(num) == FALSE

\* `if not snapshot_num`
MissingNumber(num) == num = <<>>

\* a plausible slip: `if subvolume is None`
SubvolumeIsNone(sub) == sub = <<>>

\* `if not subvolume`: None or the empty string
MissingSubvolume(sub) == sub = <<>> \/ sub[1] = <<>>

\* a plausible slip: the value column is taken without .strip()
RECURSIVE FindSubvolumeUnstripped(_)
FindSubvolumeUnstripped(lines) ==
    IF lines = <<>>
    THEN <<>>
    ELSE LET line == Head(lines)
             parts == split(line, BOX)
         IN  IF contains(line, S_SUBVOLUME) /\ Len(parts) >= 2
             THEN <<parts[2]>>
             ELSE FindSubvolumeUnstripped(Tail(lines))

\* the loop over the configuration table's lines
RECURSIVE FindSubvolume(_)
FindSubvolume(lines) ==
    IF lines = <<>>
    THEN <<>>
    ELSE LET line == Head(lines)
             parts == split(line, BOX)
         IN  IF contains(line, S_SUBVOLUME) /\ Len(parts) >= 2
             THEN <<strip(parts[2])>>
             ELSE FindSubvolume(Tail(lines))

\* the loop over the listing's lines
RECURSIVE FindSize(_, _)
FindSize(lines, num) ==
    IF lines = <<>>
    THEN Unknown
    ELSE LET line == Head(lines)
             size_match == re_search_size(line)
         IN  IF startswith(strip(line), num)
             THEN IF size_match # <<>> THEN size_match[1] ELSE Unknown
             ELSE FindSize(Tail(lines), num)

MakePath(sub, num) == sub \o <<"/.snapshots/">> \o num \o <<"/snapshot">>

success_msg(num, sz, path) ==
    <<"Snapshot #">> \o num \o <<" created successfully!\n\nSize: ">> \o sz
        \o <<"\nLocation: ">> \o path

\* a plausible slip: e.output in place of e.stderr
CalledProcessOutputMsg(r) == <<"Failed to create snapshot. Error: ">> \o r.stdout

\* except subprocess.CalledProcessError
CalledProcessErrorMsg(r) == <<"Failed to create snapshot. Error: ">> \o r.stderr

\* except Exception
ExceptionMsg(text) == <<"An unexpected error occurred: ">> \o text

\* a plausible slip: the field is cleared in the finally clause
FieldClearedAlways(k, text) == <<>>

\* the field when the handler returns after a dialog of kind k
FieldAfter(k, text) == IF k = "information" THEN <<>> ELSE text

----------------------------------------------------------------------------
(* The state machine *)

Init ==
    /\ comment_input = <<>>
    /\ snap_button = TRUE
    /\ status_bar = "Ready"
    /\ pc = "idle"
    /\ dialog = NoDialog
    /\ comment = <<>>
    /\ snapshot_num = <<>>
    /\ subvolume = <<>>
    /\ snapshot_path = <<>>
    /\ size = <<>>
    /\ calls = <<>>
    /\ results = <<>>
    /\ clicked_text = <<>>
    /\ outcome = "none"

\* the user edits the description; the window takes input only while the UI
\* thread is in the main event loop with no modal dialog open
UserEdit ==
    /\ pc = "idle"
    /\ \E d \in Descriptions :
          /\ d # comment_input
          /\ comment_input' = d
    /\ calls' = <<>>
    /\ results' = <<>>
    /\ clicked_text' = <<>>
    /\ outcome' = "none"
    /\ UNCHANGED <<snap_button, status_bar, pc, dialog, comment, snapshot_num,
                   subvolume, snapshot_path, size>>

\* both except clauses: status bar and the blocking error dialog
ShowError(text) ==
    /\ status_bar' = "Error creating snapshot"
    /\ dialog' = Dialog("critical", "Error", text)
    /\ pc' = "error"

\* what a command that did not exit zero raises
Raised(r) ==
    IF r.kind = "nonzero" THEN CalledProcessErrorMsg(r) ELSE ExceptionMsg(OSErrorText)

\* the click: take_snapshot up to the first subprocess.run.  A disabled
\* button emits no clicked signal.
Click ==
    /\ pc = "idle"
    /\ snap_button
    /\ clicked_text' = comment_input
    /\ comment' = strip(comment_input)
    /\ calls' = IF comment' = <<>> THEN <<>> ELSE <<CreateCall(comment')>>
    /\ results' = <<>>
    /\ outcome' = "none"
    /\ IF comment' = <<>>
       THEN /\ dialog' = Dialog("warning", "Warning", WarningText)
            /\ pc' = "warning"
            /\ UNCHANGED <<snap_button, status_bar>>
       ELSE /\ status_bar' = "Creating snapshot..."
            /\ snap_button' = EnabledWhileBusy
            /\ pc' = "create"
            /\ UNCHANGED dialog
    /\ UNCHANGED <<comment_input, snapshot_num, subvolume, snapshot_path, size>>

\* `snapper create` ends: up to the second subprocess.run
CreateReturns ==
    /\ pc = "create"
    /\ \E r \in CreateResults :
          /\ results' = Append(results, r)
          /\ IF r.kind # "ok"
             THEN /\ ShowError(Raised(r))
                  /\ UNCHANGED <<snapshot_num, calls>>
             ELSE /\ snapshot_num' = strip(r.stdout)
                  /\ IF MissingNumber(snapshot_num')
                     THEN /\ ShowError(ExceptionMsg(NoNumberText))
                          /\ UNCHANGED calls
                     ELSE /\ calls' = Append(calls, ConfigCall)
                          /\ pc' = "get_config"
                          /\ UNCHANGED <<status_bar, dialog>>
    /\ UNCHANGED <<comment_input, snap_button, comment, subvolume, snapshot_path,
                   size, clicked_text, outcome>>

\* `snapper get-config` ends: up to the third subprocess.run
ConfigReturns ==
    /\ pc = "get_config"
    /\ \E r \in ConfigResults :
          /\ results' = Append(results, r)
          /\ IF r.kind # "ok"
             THEN /\ ShowError(Raised(r))
                  /\ UNCHANGED <<subvolume, snapshot_path, calls>>
             ELSE /\ subvolume' = FindSubvolume(split(r.stdout, NL))
                  /\ IF MissingSubvolume(subvolume')
                     THEN /\ ShowError(ExceptionMsg(NoSubvolumeText))
                          /\ UNCHANGED <<snapshot_path, calls>>
                     ELSE /\ snapshot_path' = MakePath(subvolume'[1], snapshot_num)
                          /\ calls' = Append(calls, ListCall)
                          /\ pc' = "list"
                          /\ UNCHANGED <<status_bar, dialog>>
    /\ UNCHANGED <<comment_input, snap_button, comment, snapshot_num, size,
                   clicked_text, outcome>>

\* `snapper list` ends: up to the success dialog
ListReturns ==
    /\ pc = "list"
    /\ \E r \in ListResults :
          /\ results' = Append(results, r)
          /\ IF r.kind # "ok"
             THEN /\ ShowError(Raised(r))
                  /\ UNCHANGED size
             ELSE /\ size' = FindSize(split(r.stdout, NL), snapshot_num)
                  /\ status_bar' = "Snapshot created successfully"
                  /\ dialog' = Dialog("information", "Success",
                                      success_msg(snapshot_num, size', snapshot_path))
                  /\ pc' = "success"
    /\ UNCHANGED <<comment_input, snap_button, comment, snapshot_num, subvolume,
                   snapshot_path, calls, clicked_text, outcome>>

\* the handler's locals go out of scope when it returns
Return(how) ==
    /\ pc' = "idle"
    /\ dialog' = NoDialog
    /\ outcome' = how
    /\ comment' = <<>>
    /\ snapshot_num' = <<>>
    /\ subvolume' = <<>>
    /\ snapshot_path' = <<>>
    /\ size' = <<>>
    /\ UNCHANGED <<status_bar, calls, results, clicked_text>>

\* the warning is dismissed: `return`
DismissWarning ==
    /\ pc = "warning"
    /\ Return("rejected")
    /\ UNCHANGED <<comment_input, snap_button>>

\* the success dialog is dismissed: clear the field, then the finally clause
DismissSuccess ==
    /\ pc = "success"
    /\ Return("success")
    /\ comment_input' = FieldAfter(dialog.kind, comment_input)
    /\ snap_button' = EnabledAfterFinally

\* the error dialog is dismissed: the finally clause
DismissError ==
    /\ pc = "error"
    /\ Return("error")
    /\ comment_input' = FieldAfter(dialog.kind, comment_input)
    /\ snap_button' = EnabledAfterFinally

Next ==
    \/ UserEdit
    \/ Click
    \/ CreateReturns
    \/ ConfigReturns
    \/ ListReturns
    \/ DismissWarning
    \/ DismissSuccess
    \/ DismissError

Spec == Init /\ [][Next]_vars

\* every started command ends and every dialog is dismissed
Handler ==
    \/ CreateReturns
    \/ ConfigReturns
    \/ ListReturns
    \/ DismissWarning
    \/ DismissSuccess
    \/ DismissError

FairSpec == Spec /\ WF_vars(Handler)

----------------------------------------------------------------------------
(* Vocabulary of the properties, stated on the inputs and not through the   *)
(* handler's own parsing                                                    *)

Blank(s) == \A i \in 1..Len(s) : s[i] \in Whitespace
WithoutSpace(s) == SelectSeq(s, LAMBDA c : c \notin Whitespace)

\* a click has been taken up and its record is still kept
Clicked == pc # "idle" \/ outcome # "none"
EndedInError == pc = "error" \/ (pc = "idle" /\ outcome = "error")
EndedInSuccess == pc = "success" \/ (pc = "idle" /\ outcome = "success")
InCall == pc \in {"create", "get_config", "list"}
Cmds == [i \in 1..Len(calls) |-> calls[i].cmd]
IsPrefix(a, b) == Len(a) <= Len(b) /\ SubSeq(b, 1, Len(a)) = a

AllExitZero == \A i \in 1..Len(results) : results[i].kind = "ok"

\* the create output holds no identifier
NumberAbsent == Len(results) >= 1 /\ AllExitZero /\ Blank(results[1].stdout)

\* the rows with key SUBVOLUME that carry a value
SubvolumeRows(t) ==
    {i \in 1..Len(t) : t[i].key = S_SUBVOLUME /\ t[i].delim = BOX /\ t[i].value # <<>>}

\* the rows in which the text SUBVOLUME occurs, as key or as value
Mentioning(t) ==
    {i \in 1..Len(t) : contains(t[i].key, S_SUBVOLUME) \/ contains(t[i].value, S_SUBVOLUME)}

\* the rows a subvolume value can be read from
ValueRows(t) == {i \in Mentioning(t) : t[i].delim = BOX /\ t[i].value # <<>>}

\* the configuration table holds no subvolume value
SubvolumeAbsent == Len(results) >= 2 /\ AllExitZero /\ ValueRows(results[2].table) = {}

\* the first listing row that starts with the identifier, or 0
FirstRowOf(t, num) ==
    LET idx == {i \in 1..Len(t) : startswith(t[i].key, num)}
    IN  IF idx = {} THEN 0 ELSE CHOOSE k \in idx : \A j \in idx : k <= j

\* the listing holds no size token for the identifier
SizeAbsent ==
    /\ Len(results) = 3
    /\ AllExitZero
    /\ LET t == results[3].table
           i == FirstRowOf(t, WithoutSpace(results[1].stdout))
       IN  i = 0 \/ t[i].used = <<>>

\* `snapper create` exited zero and printed the new snapshot's number
SnapshotCreated ==
    Len(results) >= 1 /\ results[1].kind = "ok" /\ ~Blank(results[1].stdout)

\* rows of key, delimiter, value; distinct keys; one SUBVOLUME row, with a value
WellFormedConfig(t) ==
    /\ \A i \in 1..Len(t) : t[i].delim = BOX
    /\ \A i, j \in 1..Len(t) : i # j => t[i].key # t[j].key
    /\ Cardinality({i \in 1..Len(t) : t[i].key = S_SUBVOLUME}) = 1
    /\ SubvolumeRows(t) # {}

SubvolumeOf(t) == t[CHOOSE i \in SubvolumeRows(t) : TRUE].value

----------------------------------------------------------------------------
(* Claims *)

\* C1: a click whose description is empty after trimming is rejected: the
\* warning is shown, no external command is issued, the button stays enabled
\* and the field keeps its text.
C1_EmptyRejected ==
    (Clicked /\ Blank(clicked_text)) =>
        /\ pc \in {"warning", "idle"}
        /\ pc = "warning" => dialog = Dialog("warning", "Warning", WarningText)
        /\ pc = "idle" => outcome = "rejected"
        /\ calls = <<>>
        /\ results = <<>>
        /\ snap_button
        /\ comment_input = clicked_text

C1_Witness ==
    pc = "idle" /\ outcome = "rejected" /\ clicked_text = <<" ">> /\ calls = <<>>

\* C2: after a click with a non-empty description take_snapshot returns,
\* whichever call fails or field is missing, and the button is enabled when
\* it has returned.
C2_ButtonReenabled ==
    /\ [](outcome \in {"success", "error"} => snap_button)
    /\ (pc \in {"create", "get_config", "list", "success", "error"})
           ~> (pc = "idle" /\ outcome \in {"success", "error"} /\ snap_button)

C2_Witness ==
    /\ pc = "idle"
    /\ outcome = "error"
    /\ Len(results) = 2
    /\ results[2].kind = "ok"
    /\ snap_button

\* C3: while any of the three external commands is in progress the button is
\* disabled and no second take_snapshot can start; at most one command is
\* outstanding.
C3_DisabledWhileBusy ==
    /\ Len(calls) > Len(results) <=> InCall
    /\ Len(calls) <= Len(results) + 1
    /\ InCall => ~snap_button
    /\ InCall => ~ENABLED Click

C3_Witness == pc = "list" /\ ~snap_button /\ Len(results) = 2

\* C4 as stated: the error dialog's message after a non-zero exit is exactly
\* the failed command's error text.
C4_MessageIsStderr ==
    (pc = "error" /\ results[Len(results)].kind = "nonzero") =>
        dialog.text = results[Len(results)].stderr

\* C4 as amended: the message is the fixed text "Failed to create snapshot.
\* Error: " followed by exactly the error text of the command that failed.
C4_MessageEndsWithStderr ==
    (pc = "error" /\ results[Len(results)].kind = "nonzero") =>
        /\ dialog.kind = "critical"
        /\ dialog.text =
               <<"Failed to create snapshot. Error: ">> \o results[Len(results)].stderr

C4_Witness ==
    /\ pc = "error"
    /\ Len(results) = 3
    /\ results[1].stderr = <<"n", "o">>
    /\ results[3].kind = "nonzero"
    /\ results[3].stderr = <<"I", "O", " ", "e", "r", "r", NL>>

\* C5 as stated: when the calls exit zero and the identifier, the subvolume
\* or the size token is absent, the click ends in the error dialog.
C5_MissingFieldIsError ==
    (NumberAbsent \/ SubvolumeAbsent \/ SizeAbsent) => EndedInError

\* C5 as amended: an absent identifier or subvolume (no row with the text
\* SUBVOLUME, the delimiter and a value) ends the click in the error dialog;
\* an absent size token ends it in the success dialog, which reports the size
\* as Unknown.
C5_MissingFieldOutcome ==
    /\ (NumberAbsent \/ SubvolumeAbsent) => EndedInError
    /\ NumberAbsent /\ pc = "error" =>
           dialog.text = <<"An unexpected error occurred: ", "Failed to get snapshot number">>
    /\ SubvolumeAbsent /\ ~NumberAbsent /\ pc = "error" =>
           dialog.text = <<"An unexpected error occurred: ", "Failed to get subvolume path">>
    /\ SizeAbsent => EndedInSuccess
    /\ SizeAbsent /\ pc = "success" =>
           /\ size = <<"Unknown">>
           /\ \E i \in 1..Len(dialog.text) : dialog.text[i] = "Unknown"

C5_Witness ==
    /\ pc = "success"
    /\ SizeAbsent
    /\ Len(results[3].table) = 2
    /\ FirstRowOf(results[3].table, <<"1">>) = 2

\* C6: a click ends with a snapshot created and success shown, or with an
\* error shown and no snapshot created.
C6_AllOrNothing ==
    /\ EndedInSuccess => SnapshotCreated
    /\ EndedInError => ~SnapshotCreated

\* C7: the size reported on success is the size token of the listing row whose
\* key equals the identifier the create command printed.
C7_SizeOfOwnRow ==
    pc = "success" =>
        \A i \in 1..Len(results[3].table) :
            LET t == results[3].table
            IN  (/\ t[i].key = WithoutSpace(results[1].stdout)
                 /\ t[i].used # <<>>
                 /\ \A j \in 1..Len(t) : t[j].key = t[i].key => j = i)
                => size = t[i].used

C9_CallOrder ==
    /\ IsPrefix(Cmds, <<"create", "get-config", "list">>)
    /\ Len(results) <= Len(calls)
    /\ Len(calls) >= 2 => (results[1].kind = "ok" /\ ~Blank(results[1].stdout))
    /\ Len(calls) >= 3 =>
           /\ results[2].kind = "ok"
           /\ ValueRows(results[2].table) # {}
           /\ pc \in {"list", "success"} => (subvolume # <<>> /\ subvolume[1] # <<>>)
    /\ \A i \in 1..Len(results) : results[i].kind # "ok" => Len(calls) = i
    /\ EndedInError => Len(calls) = Len(results)

C9_Witness == pc = "success" /\ Len(calls) = 3 /\ Len(results) = 3

\* C10: the field is cleared exactly when the click ends in the success
\* dialog; on rejection and on every error it keeps the text the user typed.
C10_FieldClearedIffSuccess ==
    /\ pc # "idle" => comment_input = clicked_text
    /\ pc = "idle" /\ outcome = "success" => (comment_input = <<>> /\ clicked_text # <<>>)
    /\ pc = "idle" /\ outcome \in {"rejected", "error"} => comment_input = clicked_text

C10_Witness ==
    /\ pc = "idle"
    /\ outcome = "error"
    /\ comment_input = <<" ", "a", "b", " ">>
    /\ Len(results) = 2

============================================================================
